---- MODULE Spec2Model ----
(***************************************************************************)
(* State-machine model of backpy.py: the LockFile context manager and      *)
(* BackupRunner.run with its copy pool, archiver and cleanup.              *)
(*                                                                         *)
(* Paths are sequences of path components, file names in the destination   *)
(* are sequences of name tokens.  Several BackupRunner processes (Runs)    *)
(* work on the same configuration, hence on the same destination, staging  *)
(* directory and lock path.  Three scenarios share the actions: processes  *)
(* that overlap (Spec), processes that run one after the other             *)
(* (SpecSerial), and one process on a file system whose operations may     *)
(* raise (SpecFaulty).                                                     *)
(***************************************************************************)
EXTENDS Integers, Sequences, FiniteSets, TLC

\* ------------------------------------------------------------------ bounds
NumRuns == 3          \* BackupRunner processes
MaxOld == 2           \* bundles already in the destination at the start
MaxTime == 2          \* seconds the clock may advance
MaxRetention == 2     \* config['retention'] ranges over 1..MaxRetention

Runs == 1..NumRuns

\* ------------------------------------------------------- generic helpers
Max(a, b) == IF a >= b THEN a ELSE b
Min(a, b) == IF a <= b THEN a ELSE b

StartsWith(s, p) == Len(s) >= Len(p) /\ SubSeq(s, 1, Len(p)) = p
EndsWith(s, p) == Len(s) >= Len(p) /\ SubSeq(s, Len(s) - Len(p) + 1, Len(s)) = p

Range(s) == {s[i] : i \in DOMAIN s}
Front(s) == SubSeq(s, 1, Len(s) - 1)
Last(s) == s[Len(s)]

RECURSIVE Perms(_)
Perms(S) == IF S = {} THEN {<<>>}
            ELSE UNION {{<<x>> \o p : p \in Perms(S \ {x})} : x \in S}

\* Python's seq[:k]
PySliceTo(s, k) ==
    LET stop == IF k < 0 THEN Max(Len(s) + k, 0) ELSE Min(k, Len(s))
    IN  SubSeq(s, 1, stop)

\* ----------------------------------------------------- the source trees
\* Directories and files that exist on the source side; <<"m">> does not.
SrcDirs == {<<"a">>, <<"a", "b">>, <<"c">>, <<"e">>}
SrcFiles == << <<"a", "b", "y">>, <<"c", "z">> >>

IsDir(p) == p \in SrcDirs

\* os.walk(folder): every file below folder, in traversal order
Walk(folder) == SelectSeq(SrcFiles, LAMBDA f : Len(f) > Len(folder) /\ StartsWith(f, folder))

RECURSIVE GetFilesToBackup(_)
GetFilesToBackup(folders) ==
    IF folders = <<>> THEN <<>>
    ELSE (IF IsDir(Head(folders)) THEN Walk(Head(folders)) ELSE <<>>)
         \o GetFilesToBackup(Tail(folders))

\* os.path.commonpath: the longest common prefix of the folders
RECURSIVE CommonPrefix(_, _)
CommonPrefix(p, q) ==
    IF p = <<>> \/ q = <<>> \/ Head(p) # Head(q) THEN <<>>
    ELSE <<Head(p)>> \o CommonPrefix(Tail(p), Tail(q))

RECURSIVE CommonPath(_)
CommonPath(folders) ==
    IF Len(folders) = 1 THEN Head(folders)
    ELSE CommonPrefix(Head(folders), CommonPath(Tail(folders)))

\* os.path.relpath(src_file, start) for a file below start
RelPath(f, start) == SubSeq(f, Len(start) + 1, Len(f))

\* ------------------------------------------------------ the destination
Prefix == <<"nightly">>
ZipExt == <<".zip">>

BackupFilename(ts) == Prefix \o <<"_">> \o ts \o ZipExt

\* files of the destination that are no bundles of this configuration
OtherFiles == { [name |-> <<"backup", ".log">>, mtime |-> -9, entries |-> {}],
                [name |-> <<"notes", ".zip">>, mtime |-> -9, entries |-> {}],
                [name |-> <<"nightly", ".txt">>, mtime |-> -9, entries |-> {}] }

OldBundle(i, m) == [name |-> BackupFilename(<<0 - i, 0>>), mtime |-> m, entries |-> {}]

IsBackup(f) == StartsWith(f.name, Prefix) /\ EndsWith(f.name, ZipExt)

\* variant of InsertByMtime: newest first
RECURSIVE InsertByMtime_Descending(_, _)
InsertByMtime_Descending(x, s) ==
    IF s = <<>> THEN <<x>>
    ELSE IF Last(s).mtime >= x.mtime THEN Append(s, x)
    ELSE Append(InsertByMtime_Descending(x, Front(s)), Last(s))

\* sorted(..., key=getmtime): a stable insertion sort, ascending
RECURSIVE InsertByMtime(_, _)
InsertByMtime(x, s) ==
    IF s = <<>> THEN <<x>>
    ELSE IF Last(s).mtime <= x.mtime THEN Append(s, x)
    ELSE Append(InsertByMtime(x, Front(s)), Last(s))

RECURSIVE SortedByMtime(_)
SortedByMtime(s) ==
    IF s = <<>> THEN <<>>
    ELSE InsertByMtime(Last(s), SortedByMtime(Front(s)))

\* variant of ToDelete: backups[:retention]
ToDelete_NoMinus(listing, retention) == PySliceTo(SortedByMtime(listing), retention)

\* backups[:-retention]
ToDelete(listing, retention) == PySliceTo(SortedByMtime(listing), 0 - retention)

\* datetime.now().strftime("%Y%m%d_%H%M%S"): the clock counts whole seconds,
\* and the stamp names the second
Timestamp(t) == <<t \div 60, t % 60>>

\* ZipFile(path, 'w'): a file of that name is replaced
WriteFile(dir, f) == {g \in dir : g.name # f.name} \cup {f}

\* ------------------------------------------------------ configurations
Configs ==
    { [source_folders |-> sf, retention |-> rt, parallel_workers |-> pw] :
        sf \in { << <<"a">>, <<"c">> >>,           \* two folders, a file each
                 << <<"c">>, <<"m">> >>,           \* one of them missing
                 << <<"e">>, <<"m">> >>,           \* no file at all
                 << <<"a">>, <<"a", "b">> >>,      \* nested folders
                 << <<"c">>, <<"c">> >> },         \* the same folder twice
        rt \in 1..MaxRetention,
        pw \in {1, 2} }

\* ---------------------------------------------------------------- state
VARIABLES
    cfg,            \* self.config, the same for every run
    pc,             \* pc[r]: where run r is in BackupRunner.run
    dry,            \* dry[r]: self.dry_run
    trace,          \* trace[r]: the steps run r has executed, in order
    lock,           \* the marker file: whether it exists and the pid in it
    stagingExists,  \* whether the staging directory exists
    staging,        \* the files in staging, as staging-relative paths
    files,          \* files[r]: files_to_backup
    task,           \* task[r][i]: the future of _copy_worker(files[r][i])
    stamp,          \* stamp[r]: the timestamp of the run's bundle name
    dest,           \* the files in the destination directory
    now,            \* the clock
    mode            \* the scenario: "race", "serial" or "faulty", see CanStart

vars == <<cfg, pc, dry, trace, lock, stagingExists, staging, files, task, stamp, dest, now, mode>>

NoLock == [exists |-> FALSE, pid |-> 0]

Log(r, ev) == trace' = [trace EXCEPT ![r] = @ \o ev]
Goto(r, l) == pc' = [pc EXCEPT ![r] = l]

\* The parts of the initial state that are the same in every scenario.  The
\* destination holds up to MaxOld bundles of earlier runs, two of which may
\* carry the same modification time.
InitCommon ==
    /\ pc = [r \in Runs |-> "idle"]
    /\ dry = [r \in Runs |-> FALSE]
    /\ trace = [r \in Runs |-> <<>>]
    /\ files = [r \in Runs |-> <<>>]
    /\ task = [r \in Runs |-> <<>>]
    /\ stamp = [r \in Runs |-> <<>>]
    /\ now = 0

OldBundles == {{OldBundle(i, m[i]) : i \in 1..n} : n \in 0..MaxOld, m \in [1..MaxOld -> {-2, -1}]}

\* what a killed run leaves behind: its marker and its staging directory
StaleLock == [exists |-> TRUE, pid |-> 0]
Leftover == {<<"left">>}

\* Two processes started at any time, on a file system that raises no error.
Init ==
    /\ InitCommon
    /\ mode = "race"
    /\ cfg \in {c \in Configs : c.parallel_workers = 1 /\ Len(GetFilesToBackup(c.source_folders)) <= 1}
    /\ lock \in {NoLock, StaleLock}
    /\ stagingExists = lock.exists
    /\ staging = IF lock.exists THEN Leftover ELSE {}
    /\ dest = OtherFiles \cup {OldBundle(i, 0 - i) : i \in 1..MaxOld}

\* Two processes started at any time with any source folders and pool size,
\* on a file system that raises no error and a destination without old
\* bundles.
InitFair ==
    /\ InitCommon
    /\ mode = "race"
    /\ cfg \in {c \in Configs : c.retention = 1}
    /\ lock \in {NoLock, StaleLock}
    /\ stagingExists = lock.exists
    /\ staging = IF lock.exists THEN Leftover ELSE {}
    /\ dest = OtherFiles

\* NumRuns processes started one after the other, no error raised.
InitSerial ==
    /\ InitCommon
    /\ mode = "serial"
    /\ cfg \in Configs
    /\ lock = NoLock
    /\ stagingExists \in BOOLEAN
    /\ staging = IF stagingExists THEN Leftover ELSE {}
    /\ dest = OtherFiles

\* One process on a file system whose operations may raise.
InitFaulty ==
    /\ InitCommon
    /\ mode = "faulty"
    /\ cfg \in Configs
    /\ lock \in {NoLock, StaleLock}
    /\ stagingExists \in BOOLEAN
    /\ staging = IF stagingExists THEN Leftover ELSE {}
    /\ \E old \in OldBundles : dest = OtherFiles \cup old

Active(r) == pc[r] \notin {"idle", "done"}

\* which process the scenario lets start now
CanStart(r) ==
    CASE mode = "race" -> r \in {1, 2}
      [] mode = "serial" -> (\A q \in Runs : ~Active(q)) /\ (IF r = 1 THEN TRUE ELSE pc[r - 1] = "done")
      [] mode = "faulty" -> r = 1

\* whether a file system operation may raise
MayFail == mode = "faulty"

\* ------------------------------------------------------------- run(), begin
\* BackupRunner(config, dry_run).run() is called in process r
Start(r) ==
    /\ pc[r] = "idle"
    /\ CanStart(r)
    /\ \E d \in BOOLEAN : dry' = [dry EXCEPT ![r] = d]
    /\ Goto(r, "lock_check")
    /\ UNCHANGED <<cfg, trace, lock, stagingExists, staging, files, task, stamp, dest, now, mode>>

\* variant of LockCheck: __exit__ runs although __enter__ raised
LockCheck_ExitOnFail(r) ==
    /\ pc[r] = "lock_check"
    /\ IF lock.exists
         THEN Goto(r, "unlock") /\ Log(r, <<"lock_fail">>)
         ELSE Goto(r, "lock_create") /\ UNCHANGED trace
    /\ UNCHANGED <<cfg, dry, lock, stagingExists, staging, files, task, stamp, dest, now, mode>>

\* variant of LockCheck: the body of the with statement runs although
\* __enter__ found the marker
LockCheck_BodyOnFail(r) ==
    /\ pc[r] = "lock_check"
    /\ IF lock.exists
         THEN Goto(r, "reset") /\ Log(r, <<"lock_fail">>)
         ELSE Goto(r, "lock_create") /\ UNCHANGED trace
    /\ UNCHANGED <<cfg, dry, lock, stagingExists, staging, files, task, stamp, dest, now, mode>>

\* LockFile.__enter__, the existence check; RuntimeError goes to the handler
\* of run() and from there to the finally clause
LockCheck(r) ==
    /\ pc[r] = "lock_check"
    /\ IF lock.exists
         THEN Goto(r, "cleanup") /\ Log(r, <<"lock_fail">>)
         ELSE Goto(r, "lock_create") /\ UNCHANGED trace
    /\ UNCHANGED <<cfg, dry, lock, stagingExists, staging, files, task, stamp, dest, now, mode>>

\* LockFile.__enter__, open(path, 'w') and write of the pid
LockCreate(r) ==
    /\ pc[r] = "lock_create"
    /\ lock' = [exists |-> TRUE, pid |-> r]
    /\ Goto(r, "reset")
    /\ Log(r, <<"acquire">>)
    /\ UNCHANGED <<cfg, dry, stagingExists, staging, files, task, stamp, dest, now, mode>>

\* rmtree of a pre-existing staging directory, then makedirs; an exception
\* leaves the with block
StagingReset(r) ==
    /\ pc[r] = "reset"
    /\ \/ /\ stagingExists' = TRUE
          /\ staging' = {}
          /\ Goto(r, "enum")
          /\ Log(r, <<"reset">>)
       \/ /\ MayFail /\ stagingExists       \* rmtree raises part way
          /\ stagingExists' = TRUE
          /\ staging' \in SUBSET staging
          /\ Goto(r, "unlock")
          /\ Log(r, <<"reset", "err">>)
       \/ /\ MayFail                        \* makedirs raises
          /\ stagingExists' = FALSE
          /\ staging' = {}
          /\ Goto(r, "unlock")
          /\ Log(r, <<"reset", "err">>)
    /\ UNCHANGED <<cfg, dry, lock, files, task, stamp, dest, now, mode>>

\* variant of Enumerate: the early return skips the with exit and the finally clause
Enumerate_ReturnPastFinally(r) ==
    /\ pc[r] = "enum"
    /\ \/ LET fs == GetFilesToBackup(cfg.source_folders) IN
            /\ files' = [files EXCEPT ![r] = fs]
            /\ Goto(r, IF fs = <<>> THEN "done" ELSE "size")
            /\ Log(r, <<"enum">>)
       \/ /\ MayFail
          /\ Goto(r, "unlock")
          /\ Log(r, <<"enum", "err">>)
          /\ UNCHANGED files
    /\ UNCHANGED <<cfg, dry, lock, stagingExists, staging, task, stamp, dest, now, mode>>

\* variant of Enumerate: the empty list is not checked, the run goes on to copy
Enumerate_NoEmptyCheck(r) ==
    /\ pc[r] = "enum"
    /\ \/ LET fs == GetFilesToBackup(cfg.source_folders) IN
            /\ files' = [files EXCEPT ![r] = fs]
            /\ Goto(r, "size")
            /\ Log(r, <<"enum">>)
       \/ /\ MayFail
          /\ Goto(r, "unlock")
          /\ Log(r, <<"enum", "err">>)
          /\ UNCHANGED files
    /\ UNCHANGED <<cfg, dry, lock, stagingExists, staging, task, stamp, dest, now, mode>>

\* files_to_backup = list(self._get_files_to_backup()); return when empty
Enumerate(r) ==
    /\ pc[r] = "enum"
    /\ \/ LET fs == GetFilesToBackup(cfg.source_folders) IN
            /\ files' = [files EXCEPT ![r] = fs]
            /\ Goto(r, IF fs = <<>> THEN "unlock" ELSE "size")
            /\ Log(r, <<"enum">>)
       \/ /\ MayFail                        \* the traversal raises
          /\ Goto(r, "unlock")
          /\ Log(r, <<"enum", "err">>)
          /\ UNCHANGED files
    /\ UNCHANGED <<cfg, dry, lock, stagingExists, staging, task, stamp, dest, now, mode>>

\* total_copy_size = sum(getsize(f)), which raises when a file has vanished;
\* then the pool is created and every file is submitted
SumSizesAndSubmit(r) ==
    /\ pc[r] = "size"
    /\ \/ /\ task' = [task EXCEPT ![r] = [i \in 1..Len(files[r]) |-> "pending"]]
          /\ Goto(r, "copy")
          /\ Log(r, <<"copy">>)
       \/ /\ MayFail
          /\ Goto(r, "unlock")
          /\ Log(r, <<"size", "err">>)
          /\ UNCHANGED task
    /\ UNCHANGED <<cfg, dry, lock, stagingExists, staging, files, stamp, dest, now, mode>>

\* ------------------------------------------------------------ the copy pool
Running(r) == {i \in DOMAIN task[r] : task[r][i] = "running"}
Settled(r) == \A i \in DOMAIN task[r] : task[r][i] \in {"ok", "failed"}

\* the staging-relative destination of _copy_worker(src_file)
StagingPath(src_file) == RelPath(src_file, CommonPath(cfg.source_folders))

\* a pool thread takes task i: getsize, relpath, makedirs of the parent
\* directory (which creates the staging root again when it is gone)
WorkerBegin(r, i) ==
    /\ pc[r] = "copy"
    /\ i \in DOMAIN task[r]
    /\ task[r][i] = "pending"
    /\ Cardinality(Running(r)) < cfg.parallel_workers
    /\ \/ /\ task' = [task EXCEPT ![r][i] = "running"]
          /\ stagingExists' = TRUE
       \/ /\ MayFail                                     \* getsize raises
          /\ task' = [task EXCEPT ![r][i] = "failed"]
          /\ UNCHANGED stagingExists
    /\ UNCHANGED <<cfg, pc, dry, trace, lock, staging, files, stamp, dest, now, mode>>

\* variant of WorkerEnd: the exception of copy2 is not caught in the worker
WorkerEnd_Raises(r, i) ==
    /\ pc[r] = "copy"
    /\ i \in DOMAIN task[r]
    /\ task[r][i] = "running"
    /\ IF dry[r]
         THEN /\ task' = [task EXCEPT ![r][i] = "ok"]
              /\ UNCHANGED <<staging, pc, trace>>
         ELSE \/ /\ stagingExists
                 /\ staging' = staging \cup {StagingPath(files[r][i])}
                 /\ task' = [task EXCEPT ![r][i] = "ok"]
                 /\ UNCHANGED <<pc, trace>>
              \/ /\ MayFail \/ ~stagingExists
                 /\ task' = [task EXCEPT ![r][i] = "failed"]
                 /\ Goto(r, "unlock")
                 /\ Log(r, <<"copy", "err">>)
                 /\ UNCHANGED staging
    /\ UNCHANGED <<cfg, dry, lock, stagingExists, files, stamp, dest, now, mode>>

\* shutil.copy2 unless dry_run, and the return of the worker.  copy2 is
\* copyfile followed by copystat: when it raises before the destination is
\* opened nothing is written, when it raises later the destination file stays.
WorkerEnd(r, i) ==
    /\ pc[r] = "copy"
    /\ i \in DOMAIN task[r]
    /\ task[r][i] = "running"
    /\ IF dry[r]
         THEN /\ task' = [task EXCEPT ![r][i] = "ok"]
              /\ UNCHANGED staging
         ELSE \/ /\ stagingExists
                 /\ staging' = staging \cup {StagingPath(files[r][i])}
                 /\ task' = [task EXCEPT ![r][i] = "ok"]
              \/ /\ MayFail \/ ~stagingExists
                 /\ task' = [task EXCEPT ![r][i] = "failed"]
                 /\ UNCHANGED staging
              \/ /\ MayFail /\ stagingExists
                 /\ staging' = staging \cup {StagingPath(files[r][i])}
                 /\ task' = [task EXCEPT ![r][i] = "failed"]
    /\ UNCHANGED <<cfg, pc, dry, trace, lock, stagingExists, files, stamp, dest, now, mode>>

\* variant of CopyJoin: the pool is left as soon as one future is done
CopyJoin_FirstCompleted(r) ==
    /\ pc[r] = "copy"
    /\ \E i \in DOMAIN task[r] : task[r][i] \in {"ok", "failed"}
    /\ Goto(r, "zip")
    /\ UNCHANGED <<cfg, dry, trace, lock, stagingExists, staging, files, task, stamp, dest, now, mode>>

\* as_completed has yielded every future and the executor has shut down
CopyJoin(r) ==
    /\ pc[r] = "copy"
    /\ Settled(r)
    /\ Goto(r, "zip")
    /\ UNCHANGED <<cfg, dry, trace, lock, stagingExists, staging, files, task, stamp, dest, now, mode>>

\* ------------------------------------------------------------- the archive
\* variant of Archive: the bundle is written in a dry run too
Archive_IgnoresDryRun(r) ==
    /\ pc[r] = "zip"
    /\ stamp' = [stamp EXCEPT ![r] = Timestamp(now)]
    /\ Goto(r, "unlock")
    /\ LET files_to_zip == IF stagingExists THEN staging ELSE {}
           bundle(es) == [name |-> BackupFilename(Timestamp(now)),
                          mtime |-> now, entries |-> es]
       IN  \/ /\ dest' = WriteFile(dest, bundle(files_to_zip))
              /\ Log(r, <<"zip">>)
           \/ /\ MayFail
              /\ UNCHANGED dest
              /\ Log(r, <<"zip", "err">>)
    /\ UNCHANGED <<cfg, dry, lock, stagingExists, staging, files, task, now, mode>>

\* timestamp, backup_filename and _zip_staging_folder.  os.walk over a missing
\* staging directory yields nothing.
Archive(r) ==
    /\ pc[r] = "zip"
    /\ stamp' = [stamp EXCEPT ![r] = Timestamp(now)]
    /\ Goto(r, "unlock")
    /\ IF dry[r]
         THEN /\ Log(r, <<"zip">>)
              /\ UNCHANGED dest
         ELSE LET files_to_zip == IF stagingExists THEN staging ELSE {}
                  bundle(es) == [name |-> BackupFilename(Timestamp(now)),
                                 mtime |-> now, entries |-> es]
              IN  \/ /\ dest' = WriteFile(dest, bundle(files_to_zip))
                     /\ Log(r, <<"zip">>)
                  \/ /\ MayFail                          \* ZipFile() raises
                     /\ UNCHANGED dest
                     /\ Log(r, <<"zip", "err">>)
                  \/ /\ MayFail                          \* zipf.write raises
                     /\ \E es \in SUBSET files_to_zip :
                           /\ es # files_to_zip
                           /\ dest' = WriteFile(dest, bundle(es))
                     /\ Log(r, <<"zip", "err">>)
    /\ UNCHANGED <<cfg, dry, lock, stagingExists, staging, files, task, now, mode>>

\* variant of LockRelease: __exit__ leaves the marker in place
LockRelease_KeepsMarker(r) ==
    /\ pc[r] = "unlock"
    /\ Goto(r, "cleanup")
    /\ Log(r, <<"release">>)
    /\ UNCHANGED <<cfg, dry, lock, stagingExists, staging, files, task, stamp, dest, now, mode>>

\* LockFile.__exit__
LockRelease(r) ==
    /\ pc[r] = "unlock"
    /\ lock' = IF lock.exists THEN NoLock ELSE lock
    /\ Goto(r, "cleanup")
    /\ Log(r, <<"release">>)
    /\ UNCHANGED <<cfg, dry, stagingExists, staging, files, task, stamp, dest, now, mode>>

\* ------------------------------------------------------------- _cleanup
\* variant of CleanupStaging: the staging directory is left where it is
CleanupStaging_KeepsStaging(r) ==
    /\ pc[r] = "cleanup"
    /\ Goto(r, "prune")
    /\ Log(r, <<"cleanup">>)
    /\ UNCHANGED <<stagingExists, staging>>
    /\ UNCHANGED <<cfg, dry, lock, files, task, stamp, dest, now, mode>>

\* the staging part; an exception of rmtree is not caught in _cleanup nor in
\* the finally clause of run(), so the run ends there
CleanupStaging(r) ==
    /\ pc[r] = "cleanup"
    /\ IF stagingExists /\ ~dry[r]
         THEN \/ /\ stagingExists' = FALSE
                 /\ staging' = {}
                 /\ Goto(r, "prune")
                 /\ Log(r, <<"cleanup", "rmtree">>)
              \/ /\ MayFail
                 /\ stagingExists' = TRUE
                 /\ staging' \in SUBSET staging
                 /\ Goto(r, "done")
                 /\ Log(r, <<"cleanup", "rmtree", "err">>)
         ELSE /\ Goto(r, "prune")
              /\ Log(r, <<"cleanup">>)
              /\ UNCHANGED <<stagingExists, staging>>
    /\ UNCHANGED <<cfg, dry, lock, files, task, stamp, dest, now, mode>>

\* the bundles of the destination in some os.listdir order
Listings(dir) == Perms({f \in dir : IsBackup(f)})

\* variant of Prune: the exception of listdir or os.remove is not caught and
\* leaves _cleanup and run()
Prune_Uncaught(r) ==
    /\ pc[r] = "prune"
    /\ \E to_delete \in {ToDelete(listing, cfg.retention) : listing \in Listings(dest)} :
         LET removed(n) == Range(SubSeq(to_delete, 1, n))
             marks(n) == [i \in 1..n |-> IF dry[r] THEN "dry_delete" ELSE "delete"]
         IN
           \/ /\ dest' = IF dry[r] THEN dest ELSE dest \ removed(Len(to_delete))
              /\ Log(r, <<"prune">> \o marks(Len(to_delete)) \o <<"end">>)
           \/ /\ MayFail /\ ~dry[r]
              /\ \E n \in 0..(Len(to_delete) - 1) :
                    /\ dest' = dest \ removed(n)
                    /\ Log(r, <<"prune">> \o marks(n) \o <<"err">>)
           \/ /\ MayFail
              /\ UNCHANGED dest
              /\ Log(r, <<"prune", "err">>)
    /\ Goto(r, "done")
    /\ UNCHANGED <<cfg, dry, lock, stagingExists, staging, files, task, stamp, now, mode>>

\* the retention part: list, sort, slice, delete; every exception is caught.
\* Each deletion, real or simulated, is logged.  n is the number of bundles
\* deleted before os.remove raised and ended the loop.  _cleanup then returns
\* and run() logs its last lines ("end").
Prune(r) ==
    /\ pc[r] = "prune"
    /\ \E to_delete \in {ToDelete(listing, cfg.retention) : listing \in Listings(dest)} :
         LET removed(n) == Range(SubSeq(to_delete, 1, n))
             marks(n) == [i \in 1..n |-> IF dry[r] THEN "dry_delete" ELSE "delete"]
         IN
           \/ /\ dest' = IF dry[r] THEN dest ELSE dest \ removed(Len(to_delete))
              /\ Log(r, <<"prune">> \o marks(Len(to_delete)) \o <<"end">>)
           \/ /\ MayFail /\ ~dry[r]                      \* os.remove raises
              /\ \E n \in 0..(Len(to_delete) - 1) :
                    /\ dest' = dest \ removed(n)
                    /\ Log(r, <<"prune">> \o marks(n) \o <<"err", "end">>)
           \/ /\ MayFail                                 \* listdir raises
              /\ UNCHANGED dest
              /\ Log(r, <<"prune", "err", "end">>)
    /\ Goto(r, "done")
    /\ UNCHANGED <<cfg, dry, lock, stagingExists, staging, files, task, stamp, now, mode>>

\* ------------------------------------------------------------- environment
Tick ==
    /\ now < MaxTime
    /\ now' = now + 1
    /\ UNCHANGED <<cfg, pc, dry, trace, lock, stagingExists, staging, files, task, stamp, dest, mode>>

Step(r) ==
    \/ LockCheck(r) \/ LockCreate(r) \/ StagingReset(r) \/ Enumerate(r)
    \/ SumSizesAndSubmit(r)
    \/ \E i \in 1..Len(SrcFiles) : WorkerBegin(r, i) \/ WorkerEnd(r, i)
    \/ CopyJoin(r) \/ Archive(r) \/ LockRelease(r) \/ CleanupStaging(r) \/ Prune(r)

Next == Tick \/ \E r \in Runs : Start(r) \/ Step(r)

Spec == Init /\ [][Next]_vars
SpecSerial == InitSerial /\ [][Next]_vars
SpecFaulty == InitFaulty /\ [][Next]_vars

\* Every call a started run makes returns: the step a run is at is
\* eventually taken.  Starting a run is up to the user and the clock owes
\* nothing.
Fairness == \A r \in Runs : WF_vars(Step(r))
SpecFair == InitFair /\ [][Next]_vars /\ Fairness

\* ================================================================ properties
Has(r, ev) == ev \in Range(trace[r])
Count(r, ev) == Cardinality({i \in DOMAIN trace[r] : trace[r][i] = ev})

LockFailed(r) == Has(r, "lock_fail")
Acquired(r) == Has(r, "acquire")
\* between a successful __enter__ and __exit__
Holding(r) == Acquired(r) /\ ~Has(r, "release")
\* this step is one of run r
Stepped(r) == pc'[r] # pc[r] \/ task'[r] # task[r]

Backups(dir) == {f \in dir : IsBackup(f)}
Others(dir) == {f \in dir : ~IsBackup(f)}

\* run() has returned: _cleanup came back and the last line was logged
Returned(t) == t # <<>> /\ Last(t) = "end"
\* the last logged step before the end of run()
LastStep(t) == IF Len(t) >= 2 THEN t[Len(t) - 1] ELSE "none"

\* C1: a run whose existence check finds the marker fails the acquisition;
\* it never executes the staging reset, the enumeration, the copy or the
\* archive step (nor a lock release), and none of its steps touches the marker.
C1_FailsFast ==
    /\ [](\A r \in Runs : LockFailed(r) =>
            /\ pc[r] \in {"cleanup", "prune", "done"}
            /\ Range(trace[r]) \cap {"acquire", "reset", "enum", "size", "copy", "zip", "release"} = {})
    /\ [][\A r \in Runs :
            /\ (pc[r] = "lock_check" /\ lock.exists /\ Stepped(r)) => (LockFailed(r))'
            /\ ((LockFailed(r))' /\ Stepped(r)) => lock' = lock]_vars

\* C1 witness: a run has finished after a failed acquisition while the other
\* process, which wrote the marker, is still inside the with block.
C1_Witness ==
    \E r, q \in Runs :
        /\ r # q /\ LockFailed(r) /\ pc[r] = "done"
        /\ Holding(q) /\ lock = [exists |-> TRUE, pid |-> q]

\* C2 (as claimed): no step of a run that failed to acquire the lock changes
\* the staging directory or the destination.
C2_NoMutation ==
    [][\A r \in Runs : (LockFailed(r) /\ Stepped(r)) =>
            UNCHANGED <<stagingExists, staging, dest>>]_vars

\* C3 (as claimed): at no time are two runs both between acquisition and release.
C3_MutualExclusion ==
    \A r, q \in Runs : (Holding(r) /\ Holding(q)) => r = q

\* C4: a run that acquired the lock enters _cleanup at most once and runs
\* __exit__ at most once, and has done both exactly once when it has finished,
\* whichever step failed.
C4_CleanupAndReleaseOnce ==
    \A r \in Runs : Acquired(r) =>
        /\ Count(r, "cleanup") <= 1
        /\ Count(r, "release") <= 1
        /\ pc[r] = "done" => (Count(r, "cleanup") = 1 /\ Count(r, "release") = 1)

\* C4 witness: a finished run whose archive step raised.
C4_Witness ==
    \E r \in Runs :
        /\ pc[r] = "done" /\ Acquired(r)
        /\ \E i \in DOMAIN trace[r] : i > 1 /\ trace[r][i] = "err" /\ trace[r][i - 1] = "zip"

\* C5 (as claimed): while a run that acquired the lock executes its staging
\* removal and its pruning, it has not yet released the lock.
C5_ReleaseAfterCleanup ==
    \A r \in Runs : (Acquired(r) /\ pc[r] \in {"cleanup", "prune"}) => ~Has(r, "release")

\* C6: a pruning step of a non-dry-run run that ends without an error leaves,
\* of B bundles, the R with the greatest modification times when B > R and
\* all of them when B <= R; no step ever removes or changes a file that does
\* not match prefix and extension.
C6_Retention ==
    [][/\ Others(dest') = Others(dest)
       /\ \A r \in Runs :
            (pc[r] = "prune" /\ pc'[r] = "done" /\ ~dry[r] /\ LastStep(trace'[r]) # "err") =>
                LET B == Backups(dest)
                    A == Backups(dest')
                    R == cfg.retention
                IN  /\ A \subseteq B
                    /\ Cardinality(B) > R =>
                          /\ Cardinality(A) = R
                          /\ \A k \in A : \A d \in B \ A : k.mtime >= d.mtime
                    /\ Cardinality(B) <= R => A = B]_vars

\* C6 witness: a non-dry-run run has pruned without error, its last logged
\* step being a deletion, and exactly R bundles remain.
C6_Witness ==
    \E r \in Runs :
        /\ pc[r] = "done" /\ ~dry[r] /\ LastStep(trace[r]) = "delete"
        /\ Cardinality(Backups(dest)) = cfg.retention

Finished == {r \in Runs : pc[r] = "done"}
Quiet == \A r \in Runs : ~Active(r)

\* C7: in serial runs, when the k finished runs were all non-dry-run runs that
\* wrote a bundle and their timestamps differ, the destination holds exactly
\* the bundles of the last min(k, R) of them.
C7_SerialRuns ==
    (/\ Quiet
     /\ \A r \in Finished : ~dry[r] /\ Has(r, "zip") /\ ~Has(r, "err")
     /\ \A r, q \in Finished : stamp[r] = stamp[q] => r = q)
    => LET k == Cardinality(Finished)
           kept == {r \in Finished : r > k - Min(k, cfg.retention)}
       IN  /\ Cardinality(Backups(dest)) = Min(k, cfg.retention)
           /\ {b.name : b \in Backups(dest)} = {BackupFilename(stamp[r]) : r \in kept}

\* C7 witness: three such runs with retention 2, the first bundle deleted.
C7_Witness ==
    /\ Quiet /\ Cardinality(Finished) = 3 /\ cfg.retention = 2
    /\ \A r \in Finished : ~dry[r] /\ Has(r, "zip") /\ ~Has(r, "err")
    /\ \A r, q \in Finished : stamp[r] = stamp[q] => r = q
    /\ Has(3, "delete")

\* C8: a failed copy leaves the run in the copy phase and the other tasks as
\* they are; the copy phase is left only for the archive step and only when
\* every submitted file has a result; a finished run that submitted its files
\* has archived and cleaned up.
C8_CopyFailureTolerated ==
    /\ [][\A r \in Runs :
            /\ (pc[r] = "copy" /\ pc'[r] # "copy") =>
                    (pc'[r] = "zip" /\ Settled(r) /\ DOMAIN task[r] = DOMAIN files[r])
            /\ \A i \in DOMAIN task[r] :
                    (task[r][i] # "failed" /\ task'[r][i] = "failed") =>
                        /\ pc'[r] = "copy"
                        /\ \A j \in DOMAIN task[r] \ {i} : task'[r][j] = task[r][j]]_vars
    /\ [](\A r \in Runs : (pc[r] = "done" /\ Has(r, "copy")) =>
                (Settled(r) /\ Has(r, "zip") /\ Has(r, "cleanup")))

\* C8 witness: a finished run with a failed and a successful copy.
C8_Witness ==
    \E r \in Runs :
        /\ pc[r] = "done" /\ Has(r, "zip") /\ Has(r, "cleanup")
        /\ \E i, j \in DOMAIN task[r] : task[r][i] = "failed" /\ task[r][j] = "ok"

\* C9 (as claimed): the bundle a non-dry-run run writes holds exactly the
\* staging paths of the files whose copy succeeded in this run.
C9_BundleIsSuccessSet ==
    [][\A r \in Runs :
          (pc[r] = "zip" /\ pc'[r] = "unlock" /\ ~dry[r] /\ Last(trace'[r]) = "zip") =>
              \E b \in dest' :
                  /\ b.name = BackupFilename(stamp'[r])
                  /\ b.entries = {StagingPath(files[r][i]) :
                                    i \in {j \in DOMAIN task[r] : task[r][j] = "ok"}}]_vars

\* C10 (as claimed): no step of a dry-run run changes the marker, the staging
\* directory or the destination.
C10_DryRunFrame ==
    [][\A r \in Runs : (dry[r] /\ pc[r] # "idle" /\ Stepped(r)) =>
            UNCHANGED <<lock, stagingExists, staging, dest>>]_vars

\* the traversal returned and found no file at all
ZeroFiles(r) ==
    /\ files[r] = <<>>
    /\ \E i \in DOMAIN trace[r] :
          /\ trace[r][i] = "enum"
          /\ (i = Len(trace[r]) \/ trace[r][i + 1] # "err")

\* C11: a run whose enumeration yields no file never copies and never
\* archives, none of its steps adds a bundle to the destination, and it still
\* releases the lock and runs the cleanup: when it has ended both happened
\* and no lock marker is left.
C11_ZeroFilesRun ==
    [][\A r \in Runs :
          (Stepped(r) /\ ZeroFiles(r)') =>
             /\ ~Has(r, "copy")' /\ ~Has(r, "zip")' /\ ~Has(r, "size")'
             /\ stamp'[r] = <<>>
             /\ {f.name : f \in Backups(dest')} \subseteq {f.name : f \in Backups(dest)}
             /\ (pc'[r] = "done" =>
                   /\ Count(r, "release")' = 1
                   /\ Count(r, "cleanup")' = 1
                   /\ ~lock'.exists)]_vars

C11_Witness ==
    \E r \in Runs :
        /\ pc[r] = "done" /\ ZeroFiles(r) /\ Acquired(r)
        /\ Has(r, "release") /\ Has(r, "prune") /\ ~lock.exists
        /\ Backups(dest) # {}

\* this step of run r raised an exception
Raised(r) ==
    \E i \in (Len(trace[r]) + 1)..Len(trace'[r]) : trace'[r][i] = "err"

\* C12: when listing the destination or deleting an expired bundle raises,
\* the exception stays inside the cleanup: the same step ends the run with
\* run() returning normally, the marker is not touched, and a run that had
\* acquired the lock leaves no marker behind.
C12_PruneErrorsAbsorbed ==
    [][\A r \in Runs :
          (pc[r] = "prune" /\ Stepped(r) /\ Raised(r)) =>
             /\ pc'[r] = "done"
             /\ Returned(trace'[r])
             /\ lock' = lock
             /\ (Acquired(r) => Has(r, "release") /\ ~lock'.exists)]_vars

C12_Witness ==
    \E r \in Runs :
        /\ pc[r] = "done" /\ Acquired(r) /\ Has(r, "delete")
        /\ LastStep(trace[r]) = "err" /\ Returned(trace[r])
        /\ Cardinality(Backups(dest)) > cfg.retention
        /\ ~lock.exists

C14_CopyBarrier ==
    \A r \in Runs :
        (pc[r] = "zip" \/ Has(r, "zip")) =>
            /\ Len(task[r]) = Len(files[r])
            /\ Settled(r)

C14_Witness ==
    \E r \in Runs :
        /\ pc[r] = "zip" /\ cfg.parallel_workers = 2
        /\ Len(task[r]) = 2
        /\ task[r][1] = "failed" /\ task[r][2] = "ok"

\* C15 (as claimed): within one run no two submitted copy tasks have the same
\* staging destination path.
C15_DisjointDestinations ==
    \A r \in Runs :
        \A i, j \in DOMAIN task[r] :
            i # j => StagingPath(files[r][i]) # StagingPath(files[r][j])

\* the phase of run() a control point belongs to: 0 Idle, 1 LockAcquired,
\* 2 Enumerating, 3 Copying, 4 Archiving, 5 CleaningUp, 6 Finished
Phase(l) ==
    CASE l \in {"idle", "lock_check", "lock_create"} -> 0
      [] l = "reset" -> 1
      [] l = "enum" -> 2
      [] l \in {"size", "copy"} -> 3
      [] l = "zip" -> 4
      [] l \in {"unlock", "cleanup", "prune"} -> 5
      [] l = "done" -> 6

\* C16: a run never moves to an earlier phase (so no phase is re-entered
\* once left, while phases may be skipped), and every step of the staging
\* reset, the enumeration, the copy and the archive is taken by a run that
\* has acquired the lock and has not released it.
C16_PhaseOrder ==
    [][\A r \in Runs :
          /\ Phase(pc'[r]) >= Phase(pc[r])
          /\ (Stepped(r) /\ Phase(pc[r]) \in 1..4) => Holding(r)
          /\ (Stepped(r) /\ Phase(pc'[r]) \in 1..4) => Holding(r)']_vars

C16_Witness ==
    \E r \in Runs :
        /\ pc[r] = "done" /\ Returned(trace[r])
        /\ Has(r, "reset") /\ Has(r, "enum") /\ Has(r, "copy") /\ Has(r, "zip")
        /\ Has(r, "release") /\ Has(r, "prune")

\* C17: under fairness every started run reaches the end of run() (a run is
\* started at most once and stays ended, so from some point on no run is
\* between its start and its end), and when
\* every started run has ended no marker written by a run is left: the
\* marker is absent, unless it was there before the first run started (left
\* by a killed process), in which case no run acquired the lock.
C17_Termination ==
    /\ <>[]Quiet
    /\ [](Quiet => (lock.exists => lock = StaleLock /\ \A r \in Runs : ~Acquired(r)))

C17_Witness ==
    /\ Quiet /\ ~lock.exists
    /\ \A r \in {1, 2} : pc[r] = "done" /\ Acquired(r) /\ Has(r, "zip")

\* C18: no step of a dry-run run adds, replaces or deletes a bundle of the
\* destination, whatever path the run takes and however many bundles there
\* are, and none puts a file into the staging directory.
C18_DryRunKeepsBundles ==
    [][\A r \in Runs :
          (dry[r] /\ pc[r] # "idle" /\ Stepped(r)) =>
              /\ Backups(dest') = Backups(dest)
              /\ staging' \subseteq staging]_vars

C18_Witness ==
    \E r \in Runs :
        /\ pc[r] = "done" /\ dry[r] /\ Returned(trace[r])
        /\ Has(r, "zip") /\ Has(r, "dry_delete")
        /\ \E i \in DOMAIN task[r] : task[r][i] = "ok"
        /\ Cardinality(Backups(dest)) > cfg.retention
        /\ staging = {}

\* C19 (as claimed): while a run holds the lock and is in its copy or archive
\* phase, no step of another run removes or changes the staging directory.
C19_StagingIsolation ==
    [][\A r, q \in Runs :
          (r # q /\ Holding(r) /\ pc[r] \in {"copy", "zip"} /\ Stepped(q)) =>
              UNCHANGED <<stagingExists, staging>>]_vars

\* C20 (as claimed): the marker a run's __exit__ deletes was written by that
\* run, and while any run is between acquisition and release the marker
\* exists.
C20_MarkerOwnership ==
    [][\A r \in Runs :
          /\ (pc[r] = "unlock" /\ Stepped(r) /\ lock.exists) => lock.pid = r
          /\ Holding(r)' => lock'.exists]_vars

====
